---- MODULE Spec2Model ----
(***************************************************************************)
(* A model of the spark background worker (src/worker_spark.c).            *)
(*                                                                         *)
(* The worker is one process: the main loop of worker_spark_main, which    *)
(* is interrupted by the two signal handlers worker_spark_sigterm and      *)
(* worker_spark_sighup.  The loop is cut into one action per statement     *)
(* that reads or writes state shared with the handlers, so every           *)
(* interleaving of a handler with the loop is a behaviour of the model.    *)
(* A handler runs on the loop's own stack and returns before the loop      *)
(* moves again, so a handler is one step.                                  *)
(*                                                                         *)
(* The latch is set by the two handlers only: no other process sets it.    *)
(*                                                                         *)
(* The environment is the postmaster (which may die), the administrator    *)
(* (who edits postgresql.conf and sends the signals), the other sessions   *)
(* (which create and drop functions) and the clock.                        *)
(*                                                                         *)
(* worker_spark.database is left out: the loop reads it only in a DEBUG1   *)
(* message (line 194) after the connection was made at line 105.           *)
(***************************************************************************)
EXTENDS Integers, Sequences, FiniteSets, TLC

\* ------------------------------------------------------------------ bounds

\* worker_spark.naptime ranges over 1..MaxNaptime seconds in the model.
MaxNaptime == 2

\* The arithmetic of line 123 is followed for the intervals within Window of
\* each end of the range of worker_spark.naptime, of the largest interval
\* whose milliseconds fit 32 bits, and of the first interval that needs a
\* second limb.
Window == 10

\* ------------------------------------------------------------- value sets

\* The 1000L of line 123: milliseconds per second of naptime.
MsPerSec == 1000

Schemas == {"public", "other"}
Procedures == {"spark_fn", "missing_fn"}
Naptimes == 1..MaxNaptime

\* The functions other sessions create and drop.
Functions == {<<"public", "spark_fn">>}

\* Result classes of SPI_execute: the expected one and another.
SPI_OK_SELECT == "SPI_OK_SELECT"
SPI_Results == {SPI_OK_SELECT, "SPI_ERROR_TRANSACTION"}

\* Wake events of WaitLatch, line 122.
WL_LATCH_SET == "WL_LATCH_SET"
WL_TIMEOUT == "WL_TIMEOUT"
WL_POSTMASTER_DEATH == "WL_POSTMASTER_DEATH"

\* The values of the three settings the loop reads.
Settings == [naptime : Naptimes, schema : Schemas, procedure : Procedures]

VARIABLES
    pc,                      \* the statement the main loop is at
    got_sighup,              \* line 44
    got_sigterm,             \* line 45
    procLatch,               \* MyProc->procLatch is set
    worker_spark_naptime,    \* line 48
    worker_spark_schema,     \* line 51
    worker_spark_procedure,  \* line 50
    timeout,                 \* third argument of the WaitLatch in progress,
                             \*   0 outside the call (in TimeoutSpec: the
                             \*   long it is on the build of each width)
    rc,                      \* line 113
    ret,                     \* line 112
    SPI_processed,           \* rows of the last SPI_execute
    xacts,                   \* transactions started and not committed
    spi,                     \* SPI connections made and not finished
    snapshots,               \* active snapshots pushed and not popped
    exitStatus,              \* <<s>> once proc_exit(s) was called, <<>> before
    postmasterAlive,         \* the postmaster has not died
    conf,                    \* the worker_spark.* lines of postgresql.conf
    catalog,                 \* the <<schema, function>> pairs in pg_proc
    elapsed,                 \* milliseconds spent in the last WaitLatch, 0
                             \*   once its transaction has started
    cycle,                   \* history: what happened since the loop last
                             \*   entered WaitLatch
    everSignalled,           \* history: a signal was delivered to the process
    exitFrom,                \* history: the statement that ended the process
    hupPending               \* history: SIGHUP was delivered and line 136 has
                             \*   not started since

progVars == <<pc, got_sighup, got_sigterm, procLatch,
              worker_spark_naptime, worker_spark_schema, worker_spark_procedure,
              timeout, rc, ret, SPI_processed, xacts, spi, snapshots,
              exitStatus>>
envVars == <<postmasterAlive, conf, catalog, elapsed>>
histVars == <<cycle, everSignalled, exitFrom, hupPending>>
vars == <<progVars, envVars, histVars>>

\* ---------------------------------------------------------------- helpers

\* MyProc is set before worker_spark_main is entered and until the process
\* exits (the test of lines 70 and 85).
MyProc == pc # "proc_exit"

\* The loop runs until proc_exit.
LoopRuns == pc # "proc_exit"

\* A timeout that passes the seconds of naptime as milliseconds.
WaitTimeout_unscaled(naptime) == naptime

\* Line 123: worker_spark_naptime * 1000L.
WaitTimeout(naptime) == naptime * MsPerSec

\* The conditions WaitLatch may report at this moment (lines 121-123).
WakeConditions ==
    (IF procLatch THEN {WL_LATCH_SET} ELSE {})
    \cup (IF elapsed >= timeout THEN {WL_TIMEOUT} ELSE {})
    \cup (IF ~postmasterAlive THEN {WL_POSTMASTER_DEATH} ELSE {})

\* Lines 163-170: the text of the catalog lookup.
LookupQuery(schema, procedure) ==
    [kind |-> "lookup", schema |-> schema, procedure |-> procedure]

\* Lines 180-182: the text of the invocation.
FireQuery(schema, procedure) ==
    [kind |-> "fire", schema |-> schema, procedure |-> procedure]

\* A lookup that compares the two names with the wrong columns.
LookupRows_swapped(q) ==
    IF <<q.procedure, q.schema>> \in catalog THEN 1 ELSE 0

\* Rows the lookup of lines 164-168 returns: LIMIT 1 of the matches.
LookupRows(q) == IF <<q.schema, q.procedure>> \in catalog THEN 1 ELSE 0

\* An entry of the history of a cycle: a step of the transaction ("begin",
\* "lookup", "fire", "commit"); for a query, the names in its text, the
\* result class it returned and whether the function it names was in the
\* catalog when it ran.
Event(op, schema, procedure, result, exists) ==
    [op |-> op, schema |-> schema, procedure |-> procedure,
     result |-> result, exists |-> exists]

Log(e) == [cycle EXCEPT !.events = Append(@, e)]

EventsOf(op) == SelectSeq(cycle.events, LAMBDA e : e.op = op)

Count(op) == Len(EventsOf(op))

CurrentSettings ==
    [naptime |-> worker_spark_naptime, schema |-> worker_spark_schema,
     procedure |-> worker_spark_procedure]

\* The schema and the procedure of the settings s.
Names(s) == [schema |-> s.schema, procedure |-> s.procedure]

\* The history of a cycle that starts with the settings s: the steps of its
\* transaction, the settings it reloaded, the names it entered WaitLatch
\* with, whether WaitLatch has returned, whether SIGHUP was delivered before
\* the test of line 133, whether SIGTERM was delivered during WaitLatch, the
\* phase of the loop at the first delivery of SIGTERM and the transactions
\* the cycle had begun by then.
NewCycle(s) ==
    [events |-> <<>>, loaded |-> <<>>, atWait |-> Names(s), woke |-> FALSE,
     hupBefore |-> FALSE, termWaiting |-> FALSE, termAt |-> "none",
     termBegins |-> 0]

\* The statements from the return of WaitLatch to the test of got_sighup.
BeforeCheckpoint == {"WaitLatch", "ResetLatch", "CheckDeath", "TestSighup"}

\* The statements between StartTransactionCommand and CommitTransactionCommand.
Executing == {"Lookup", "CheckLookup", "Branch", "Fire", "CheckFire", "Finish"}

\* The phase of the loop at the statement p: at the test of line 110, in
\* WaitLatch, between the return of WaitLatch and the transaction, or in the
\* transaction.
Phase(p) ==
    IF p = "LoopTest" THEN "LoopTest"
    ELSE IF p = "WaitLatch" THEN "Waiting"
    ELSE IF p \in Executing THEN "Executing"
    ELSE "Woken"

\* ------------------------------------------------------------------- Init

Init ==
    /\ pc = "LoopTest"
    /\ got_sighup = FALSE
    /\ got_sigterm = FALSE
    /\ procLatch = FALSE
    /\ \E s \in Settings :
          /\ worker_spark_naptime = s.naptime
          /\ worker_spark_schema = s.schema
          /\ worker_spark_procedure = s.procedure
          /\ conf = s
          /\ cycle = NewCycle(s)
    /\ timeout = 0
    /\ rc = {}
    /\ ret = "unset"
    /\ SPI_processed = 0
    /\ xacts = 0
    /\ spi = 0
    /\ snapshots = 0
    /\ exitStatus = <<>>
    /\ postmasterAlive = TRUE
    /\ catalog \in SUBSET Functions
    /\ elapsed = 0
    /\ everSignalled = FALSE
    /\ exitFrom = "none"
    /\ hupPending = FALSE

\* --------------------------------------------------------- signal handlers
\* A handler runs on the stack of the loop and returns before the loop takes
\* its next step; nothing reads the state between its two statements, so
\* each handler is one step.

\* A handler that sets its flag and leaves the latch alone.
SetLatch_skipped == UNCHANGED procLatch

\* SetLatch(&MyProc->procLatch), guarded by the test of MyProc (lines 70-71
\* and 85-86).
SetLatch == procLatch' = (procLatch \/ MyProc)

\* One handler installed for both signals: it sets both flags.
worker_spark_sigterm_bothFlags ==
    /\ pc # "proc_exit"
    /\ got_sigterm' = TRUE
    /\ got_sighup' = TRUE
    /\ SetLatch
    /\ everSignalled' = TRUE
    /\ cycle' = [cycle EXCEPT
                    !.termWaiting = @ \/ pc = "WaitLatch",
                    !.termAt = IF got_sigterm THEN @ ELSE Phase(pc),
                    !.termBegins = IF got_sigterm THEN @ ELSE Count("begin")]
    /\ UNCHANGED <<pc, worker_spark_naptime, worker_spark_schema,
                   worker_spark_procedure, timeout, rc, ret, SPI_processed,
                   xacts, spi, snapshots, exitStatus, envVars, exitFrom>>
    /\ UNCHANGED hupPending

\* A handler of SIGTERM that abandons the transaction in progress.
worker_spark_sigterm_interrupting ==
    /\ pc # "proc_exit"
    /\ got_sigterm' = TRUE
    /\ SetLatch
    /\ everSignalled' = TRUE
    /\ pc' = IF pc \in Executing THEN "LoopTest" ELSE pc
    /\ cycle' = [cycle EXCEPT
                    !.termWaiting = @ \/ pc = "WaitLatch",
                    !.termAt = IF got_sigterm THEN @ ELSE Phase(pc),
                    !.termBegins = IF got_sigterm THEN @ ELSE Count("begin")]
    /\ UNCHANGED <<got_sighup, worker_spark_naptime, worker_spark_schema,
                   worker_spark_procedure, timeout, rc, ret, SPI_processed,
                   xacts, spi, snapshots, exitStatus, envVars, exitFrom>>
    /\ UNCHANGED hupPending

\* Lines 64-74: the handler of SIGTERM.
worker_spark_sigterm ==
    /\ pc # "proc_exit"
    /\ got_sigterm' = TRUE
    /\ SetLatch
    /\ everSignalled' = TRUE
    /\ cycle' = [cycle EXCEPT
                    !.termWaiting = @ \/ pc = "WaitLatch",
                    !.termAt = IF got_sigterm THEN @ ELSE Phase(pc),
                    !.termBegins = IF got_sigterm THEN @ ELSE Count("begin")]
    /\ UNCHANGED <<pc, got_sighup, worker_spark_naptime, worker_spark_schema,
                   worker_spark_procedure, timeout, rc, ret, SPI_processed,
                   xacts, spi, snapshots, exitStatus, envVars, exitFrom>>
    /\ UNCHANGED hupPending

\* A handler of SIGHUP that reloads the settings itself, wherever the loop
\* is.
worker_spark_sighup_reloading ==
    /\ pc # "proc_exit"
    /\ got_sighup' = TRUE
    /\ SetLatch
    /\ everSignalled' = TRUE
    /\ worker_spark_naptime' = conf.naptime
    /\ worker_spark_schema' = conf.schema
    /\ worker_spark_procedure' = conf.procedure
    /\ cycle' = [cycle EXCEPT !.hupBefore = @ \/ pc \in BeforeCheckpoint]
    /\ UNCHANGED <<pc, got_sigterm, timeout, rc, ret, SPI_processed,
                   xacts, spi, snapshots, exitStatus, envVars, exitFrom>>
    /\ hupPending' = TRUE

\* Lines 81-87: the handler of SIGHUP.
worker_spark_sighup ==
    /\ pc # "proc_exit"
    /\ got_sighup' = TRUE
    /\ SetLatch
    /\ everSignalled' = TRUE
    /\ cycle' = [cycle EXCEPT !.hupBefore = @ \/ pc \in BeforeCheckpoint]
    /\ UNCHANGED <<pc, got_sigterm, worker_spark_naptime, worker_spark_schema,
                   worker_spark_procedure, timeout, rc, ret, SPI_processed,
                   xacts, spi, snapshots, exitStatus, envVars, exitFrom>>
    /\ hupPending' = TRUE

\* ---------------------------------------------------------------- the loop

\* proc_exit(code), reached from statement `from`.
proc_exit(code, from) ==
    /\ pc' = "proc_exit"
    /\ exitStatus' = <<code>>
    /\ exitFrom' = from

\* A loop that works first and waits afterwards.
LoopEnter_noWait ==
    /\ LoopRuns
    /\ pc = "LoopTest"
    /\ ~got_sigterm
    /\ pc' = "StartTx"
    /\ cycle' = NewCycle(CurrentSettings)
    /\ UNCHANGED <<got_sighup, got_sigterm, procLatch,
                   worker_spark_naptime, worker_spark_schema,
                   worker_spark_procedure, timeout, rc, ret, SPI_processed,
                   xacts, spi, snapshots, exitStatus, envVars,
                   everSignalled, exitFrom>>
    /\ UNCHANGED hupPending

\* A loop that never tests got_sigterm.
LoopEnter_unconditional ==
    /\ LoopRuns
    /\ pc = "LoopTest"
    /\ pc' = "WaitLatch"
    /\ timeout' = WaitTimeout(worker_spark_naptime)
    /\ elapsed' = 0
    /\ cycle' = NewCycle(CurrentSettings)
    /\ UNCHANGED <<got_sighup, got_sigterm, procLatch,
                   worker_spark_naptime, worker_spark_schema,
                   worker_spark_procedure, rc, ret, SPI_processed, xacts,
                   spi, snapshots, exitStatus, postmasterAlive, conf, catalog,
                   everSignalled, exitFrom>>
    /\ UNCHANGED hupPending

\* Line 110, got_sigterm clear: enter the loop body and call WaitLatch with
\* the timeout of line 123.
LoopEnter ==
    /\ LoopRuns
    /\ pc = "LoopTest"
    /\ ~got_sigterm
    /\ pc' = "WaitLatch"
    /\ timeout' = WaitTimeout(worker_spark_naptime)
    /\ elapsed' = 0
    /\ cycle' = NewCycle(CurrentSettings)
    /\ UNCHANGED <<got_sighup, got_sigterm, procLatch,
                   worker_spark_naptime, worker_spark_schema,
                   worker_spark_procedure, rc, ret, SPI_processed, xacts,
                   spi, snapshots, exitStatus, postmasterAlive, conf, catalog,
                   everSignalled, exitFrom>>
    /\ UNCHANGED hupPending

\* Lines 110 and 206, got_sigterm set: leave the loop, proc_exit(0).
LoopExit ==
    /\ LoopRuns
    /\ pc = "LoopTest"
    /\ got_sigterm
    /\ proc_exit(0, "LoopTest")
    /\ UNCHANGED <<got_sighup, got_sigterm, procLatch,
                   worker_spark_naptime, worker_spark_schema,
                   worker_spark_procedure, timeout, rc, ret, SPI_processed,
                   xacts, spi, snapshots, envVars, cycle, everSignalled>>
    /\ UNCHANGED hupPending

\* Lines 121-123: WaitLatch returns, reporting at least one of the
\* conditions that hold; its argument ends with the call.
WaitLatchReturn ==
    /\ LoopRuns
    /\ pc = "WaitLatch"
    /\ \E events \in (SUBSET WakeConditions) \ {{}} : rc' = events
    /\ timeout' = 0
    /\ cycle' = [cycle EXCEPT !.woke = TRUE]
    /\ pc' = "ResetLatch"
    /\ UNCHANGED <<got_sighup, got_sigterm, procLatch,
                   worker_spark_naptime, worker_spark_schema,
                   worker_spark_procedure, ret, SPI_processed,
                   xacts, spi, snapshots, exitStatus, envVars, everSignalled,
                   exitFrom>>
    /\ UNCHANGED hupPending

\* Line 124.
ResetLatch ==
    /\ LoopRuns
    /\ pc = "ResetLatch"
    /\ procLatch' = FALSE
    /\ pc' = "CheckDeath"
    /\ UNCHANGED <<got_sighup, got_sigterm, worker_spark_naptime,
                   worker_spark_schema, worker_spark_procedure, timeout, rc,
                   ret, SPI_processed, xacts, spi, snapshots, exitStatus,
                   envVars, histVars>>

\* A loop that goes on after WaitLatch reported the death of the postmaster.
PostmasterDeathExit_ignored ==
    /\ LoopRuns
    /\ pc = "CheckDeath"
    /\ WL_POSTMASTER_DEATH \in rc
    /\ pc' = "TestSighup"
    /\ UNCHANGED <<got_sighup, got_sigterm, procLatch,
                   worker_spark_naptime, worker_spark_schema,
                   worker_spark_procedure, timeout, rc, ret, SPI_processed,
                   xacts, spi, snapshots, exitStatus, envVars, histVars>>

\* A loop that honours a pending SIGTERM before the death of the postmaster
\* and then exits with status 0.
PostmasterDeathExit_termFirst ==
    /\ LoopRuns
    /\ pc = "CheckDeath"
    /\ WL_POSTMASTER_DEATH \in rc
    /\ proc_exit(IF got_sigterm THEN 0 ELSE 1, "CheckDeath")
    /\ UNCHANGED <<got_sighup, got_sigterm, procLatch,
                   worker_spark_naptime, worker_spark_schema,
                   worker_spark_procedure, timeout, rc, ret, SPI_processed,
                   xacts, spi, snapshots, envVars, cycle, everSignalled>>
    /\ UNCHANGED hupPending

\* Lines 127-128, the postmaster has died: proc_exit(1).
PostmasterDeathExit ==
    /\ LoopRuns
    /\ pc = "CheckDeath"
    /\ WL_POSTMASTER_DEATH \in rc
    /\ proc_exit(1, "CheckDeath")
    /\ UNCHANGED <<got_sighup, got_sigterm, procLatch,
                   worker_spark_naptime, worker_spark_schema,
                   worker_spark_procedure, timeout, rc, ret, SPI_processed,
                   xacts, spi, snapshots, envVars, cycle, everSignalled>>
    /\ UNCHANGED hupPending

\* Line 127, no postmaster death reported.  rc is not read again: the model
\* forgets it here.
PostmasterDeathSkip ==
    /\ LoopRuns
    /\ pc = "CheckDeath"
    /\ WL_POSTMASTER_DEATH \notin rc
    /\ rc' = {}
    /\ pc' = "TestSighup"
    /\ UNCHANGED <<got_sighup, got_sigterm, procLatch,
                   worker_spark_naptime, worker_spark_schema,
                   worker_spark_procedure, timeout, ret, SPI_processed,
                   xacts, spi, snapshots, exitStatus, envVars, histVars>>

\* Line 133: the test of got_sighup.
TestSighup ==
    /\ LoopRuns
    /\ pc = "TestSighup"
    /\ pc' = IF got_sighup THEN "ClearSighup" ELSE "StartTx"
    /\ UNCHANGED <<got_sighup, got_sigterm, procLatch,
                   worker_spark_naptime, worker_spark_schema,
                   worker_spark_procedure, timeout, rc, ret, SPI_processed,
                   xacts, spi, snapshots, exitStatus, envVars, histVars>>

\* A loop that clears both flags at line 135.
ClearSighup_clearsBoth ==
    /\ LoopRuns
    /\ pc = "ClearSighup"
    /\ got_sighup' = FALSE
    /\ got_sigterm' = FALSE
    /\ pc' = "ProcessConfigFile"
    /\ UNCHANGED <<procLatch, worker_spark_naptime,
                   worker_spark_schema, worker_spark_procedure, timeout, rc,
                   ret, SPI_processed, xacts, spi, snapshots, exitStatus,
                   envVars, histVars>>

\* Line 135.
ClearSighup ==
    /\ LoopRuns
    /\ pc = "ClearSighup"
    /\ got_sighup' = FALSE
    /\ pc' = "ProcessConfigFile"
    /\ UNCHANGED <<got_sigterm, procLatch, worker_spark_naptime,
                   worker_spark_schema, worker_spark_procedure, timeout, rc,
                   ret, SPI_processed, xacts, spi, snapshots, exitStatus,
                   envVars, histVars>>

\* A reload that leaves the three settings as they were at process start.
ProcessConfigFile_restartOnly ==
    /\ LoopRuns
    /\ pc = "ProcessConfigFile"
    /\ cycle' = [cycle EXCEPT !.loaded = Append(@, conf)]
    /\ pc' = "StartTx"
    /\ UNCHANGED <<got_sighup, got_sigterm, procLatch,
                   worker_spark_naptime, worker_spark_schema,
                   worker_spark_procedure, timeout, rc, ret, SPI_processed,
                   xacts, spi, snapshots, exitStatus, envVars, everSignalled,
                   exitFrom>>
    /\ hupPending' = FALSE

\* Line 136: ProcessConfigFile(PGC_SIGHUP) assigns to every PGC_SIGHUP
\* variable its value in postgresql.conf; the three settings are defined
\* PGC_SIGHUP at lines 228, 248 and 258.
ProcessConfigFile ==
    /\ LoopRuns
    /\ pc = "ProcessConfigFile"
    /\ worker_spark_naptime' = conf.naptime
    /\ worker_spark_schema' = conf.schema
    /\ worker_spark_procedure' = conf.procedure
    /\ cycle' = [cycle EXCEPT !.loaded = Append(@, conf)]
    /\ pc' = "StartTx"
    /\ UNCHANGED <<got_sighup, got_sigterm, procLatch, timeout, rc,
                   ret, SPI_processed, xacts, spi, snapshots, exitStatus,
                   envVars, everSignalled, exitFrom>>
    /\ hupPending' = FALSE

\* A loop that clears got_sighup after the reload, when the transaction
\* starts, instead of before it.
StartTx_clearsSighup ==
    /\ LoopRuns
    /\ pc = "StartTx"
    /\ got_sighup' = FALSE
    /\ xacts' = xacts + 1
    /\ spi' = spi + 1
    /\ snapshots' = snapshots + 1
    /\ elapsed' = 0
    /\ cycle' = Log(Event("begin", "", "", "", FALSE))
    /\ pc' = "Lookup"
    /\ UNCHANGED <<got_sigterm, procLatch,
                   worker_spark_naptime, worker_spark_schema,
                   worker_spark_procedure, timeout, rc, ret, SPI_processed,
                   exitStatus, postmasterAlive, conf, catalog, everSignalled,
                   exitFrom>>
    /\ UNCHANGED hupPending

\* Lines 155-159: start the transaction, connect to SPI and push the
\* snapshot.
StartTx ==
    /\ LoopRuns
    /\ pc = "StartTx"
    /\ xacts' = xacts + 1
    /\ spi' = spi + 1
    /\ snapshots' = snapshots + 1
    /\ elapsed' = 0
    /\ cycle' = Log(Event("begin", "", "", "", FALSE))
    /\ pc' = "Lookup"
    /\ UNCHANGED <<got_sighup, got_sigterm, procLatch,
                   worker_spark_naptime, worker_spark_schema,
                   worker_spark_procedure, timeout, rc, ret, SPI_processed,
                   exitStatus, postmasterAlive, conf, catalog, everSignalled,
                   exitFrom>>
    /\ UNCHANGED hupPending

\* SPI_execute of the query q (lines 173 and 184): the result class is the
\* host's choice; a lookup returns LookupRows, an invocation one row.
SPI_execute(q) ==
    \E result \in SPI_Results :
       /\ ret' = result
       /\ SPI_processed' = IF result # SPI_OK_SELECT THEN 0
                           ELSE IF q.kind = "lookup" THEN LookupRows(q) ELSE 1
       /\ cycle' = Log(Event(q.kind, q.schema, q.procedure, result,
                             <<q.schema, q.procedure>> \in catalog))

\* Lines 162-173: write the lookup into buf from the two settings and
\* execute it.
Lookup ==
    /\ LoopRuns
    /\ pc = "Lookup"
    /\ SPI_execute(LookupQuery(worker_spark_schema, worker_spark_procedure))
    /\ pc' = "CheckLookup"
    /\ UNCHANGED <<got_sighup, got_sigterm, procLatch,
                   worker_spark_naptime, worker_spark_schema,
                   worker_spark_procedure, timeout, rc, xacts, spi,
                   snapshots, exitStatus, envVars, everSignalled, exitFrom>>
    /\ UNCHANGED hupPending

\* A fatal path that runs the release steps of lines 200-202 before it ends
\* the process.
LookupFatal_releasing ==
    /\ LoopRuns
    /\ pc = "CheckLookup"
    /\ ret # SPI_OK_SELECT
    /\ spi' = spi - 1
    /\ snapshots' = snapshots - 1
    /\ xacts' = xacts - 1
    /\ proc_exit(1, "CheckLookup")
    /\ UNCHANGED <<got_sighup, got_sigterm, procLatch,
                   worker_spark_naptime, worker_spark_schema,
                   worker_spark_procedure, timeout, rc, ret, SPI_processed,
                   envVars, cycle, everSignalled>>
    /\ UNCHANGED hupPending

\* Lines 174-175, unexpected result: elog(FATAL) ends the process with
\* proc_exit(1).
LookupFatal ==
    /\ LoopRuns
    /\ pc = "CheckLookup"
    /\ ret # SPI_OK_SELECT
    /\ proc_exit(1, "CheckLookup")
    /\ UNCHANGED <<got_sighup, got_sigterm, procLatch,
                   worker_spark_naptime, worker_spark_schema,
                   worker_spark_procedure, timeout, rc, ret, SPI_processed,
                   xacts, spi, snapshots, envVars, cycle, everSignalled>>
    /\ UNCHANGED hupPending

\* Line 174, expected result.
LookupOk ==
    /\ LoopRuns
    /\ pc = "CheckLookup"
    /\ ret = SPI_OK_SELECT
    /\ pc' = "Branch"
    /\ UNCHANGED <<got_sighup, got_sigterm, procLatch,
                   worker_spark_naptime, worker_spark_schema,
                   worker_spark_procedure, timeout, rc, ret, SPI_processed,
                   xacts, spi, snapshots, exitStatus, envVars, histVars>>

\* Line 177, a row was found.
BranchFound ==
    /\ LoopRuns
    /\ pc = "Branch"
    /\ SPI_processed > 0
    /\ pc' = "Fire"
    /\ UNCHANGED <<got_sighup, got_sigterm, procLatch,
                   worker_spark_naptime, worker_spark_schema,
                   worker_spark_procedure, timeout, rc, ret, SPI_processed,
                   xacts, spi, snapshots, exitStatus, envVars, histVars>>

\* A loop that treats the missing procedure as a fatal error.
BranchNotFound_fatal ==
    /\ LoopRuns
    /\ pc = "Branch"
    /\ ~(SPI_processed > 0)
    /\ proc_exit(1, "Branch")
    /\ UNCHANGED <<got_sighup, got_sigterm, procLatch,
                   worker_spark_naptime, worker_spark_schema,
                   worker_spark_procedure, timeout, rc, ret, SPI_processed,
                   xacts, spi, snapshots, envVars, cycle, everSignalled>>
    /\ UNCHANGED hupPending

\* Lines 177 and 189-195, no row: only a DEBUG1 message.
BranchNotFound ==
    /\ LoopRuns
    /\ pc = "Branch"
    /\ ~(SPI_processed > 0)
    /\ pc' = "Finish"
    /\ UNCHANGED <<got_sighup, got_sigterm, procLatch,
                   worker_spark_naptime, worker_spark_schema,
                   worker_spark_procedure, timeout, rc, ret, SPI_processed,
                   xacts, spi, snapshots, exitStatus, envVars, histVars>>

\* Lines 179-184: write the invocation into buf from the two settings and
\* execute it.
Fire ==
    /\ LoopRuns
    /\ pc = "Fire"
    /\ SPI_execute(FireQuery(worker_spark_schema, worker_spark_procedure))
    /\ pc' = "CheckFire"
    /\ UNCHANGED <<got_sighup, got_sigterm, procLatch,
                   worker_spark_naptime, worker_spark_schema,
                   worker_spark_procedure, timeout, rc, xacts, spi,
                   snapshots, exitStatus, envVars, everSignalled, exitFrom>>
    /\ UNCHANGED hupPending

\* A loop that retries the invocation after an unexpected result.
FireFatal_retry ==
    /\ LoopRuns
    /\ pc = "CheckFire"
    /\ ret # SPI_OK_SELECT
    /\ pc' = "Fire"
    /\ UNCHANGED <<got_sighup, got_sigterm, procLatch,
                   worker_spark_naptime, worker_spark_schema,
                   worker_spark_procedure, timeout, rc, ret, SPI_processed,
                   xacts, spi, snapshots, exitStatus, envVars, histVars>>

\* Lines 186-187, unexpected result: elog(FATAL).
FireFatal ==
    /\ LoopRuns
    /\ pc = "CheckFire"
    /\ ret # SPI_OK_SELECT
    /\ proc_exit(1, "CheckFire")
    /\ UNCHANGED <<got_sighup, got_sigterm, procLatch,
                   worker_spark_naptime, worker_spark_schema,
                   worker_spark_procedure, timeout, rc, ret, SPI_processed,
                   xacts, spi, snapshots, envVars, cycle, everSignalled>>
    /\ UNCHANGED hupPending

\* Line 186, expected result.
FireOk ==
    /\ LoopRuns
    /\ pc = "CheckFire"
    /\ ret = SPI_OK_SELECT
    /\ pc' = "Finish"
    /\ UNCHANGED <<got_sighup, got_sigterm, procLatch,
                   worker_spark_naptime, worker_spark_schema,
                   worker_spark_procedure, timeout, rc, ret, SPI_processed,
                   xacts, spi, snapshots, exitStatus, envVars, histVars>>

\* A loop that ends the iteration without CommitTransactionCommand.
Finish_noCommit ==
    /\ LoopRuns
    /\ pc = "Finish"
    /\ spi' = spi - 1
    /\ SPI_processed' = 0
    /\ snapshots' = snapshots - 1
    /\ ret' = "unset"
    /\ cycle' = Log(Event("commit", "", "", "", FALSE))
    /\ pc' = "LoopTest"
    /\ UNCHANGED <<got_sighup, got_sigterm, procLatch,
                   worker_spark_naptime, worker_spark_schema,
                   worker_spark_procedure, timeout, rc, xacts, exitStatus,
                   envVars, everSignalled, exitFrom>>
    /\ UNCHANGED hupPending

\* Lines 200-204: SPI_finish (which zeroes SPI_processed), PopActiveSnapshot,
\* CommitTransactionCommand; the local ret of the loop body ends with the
\* iteration; then back to the test of line 110.
Finish ==
    /\ LoopRuns
    /\ pc = "Finish"
    /\ spi' = spi - 1
    /\ SPI_processed' = 0
    /\ snapshots' = snapshots - 1
    /\ xacts' = xacts - 1
    /\ ret' = "unset"
    /\ cycle' = Log(Event("commit", "", "", "", FALSE))
    /\ pc' = "LoopTest"
    /\ UNCHANGED <<got_sighup, got_sigterm, procLatch,
                   worker_spark_naptime, worker_spark_schema,
                   worker_spark_procedure, timeout, rc, exitStatus, envVars,
                   everSignalled, exitFrom>>
    /\ UNCHANGED hupPending

\* ---------------------------------------------------------- the environment
\* The environment is followed until the process has exited.

\* The clock advances by one second while the loop is in WaitLatch; time
\* past the timeout is not counted.
Tick ==
    /\ pc = "WaitLatch"
    /\ elapsed < timeout
    /\ elapsed' = elapsed + MsPerSec
    /\ UNCHANGED <<progVars, postmasterAlive, conf, catalog, histVars>>

\* The postmaster dies.
PostmasterDies ==
    /\ pc # "proc_exit"
    /\ postmasterAlive
    /\ postmasterAlive' = FALSE
    /\ UNCHANGED <<progVars, conf, catalog, elapsed, histVars>>

\* The administrator edits the worker_spark.* lines of postgresql.conf
\* (README.md lines 22-28).
EditConf ==
    /\ pc # "proc_exit"
    /\ \E s \in Settings \ {conf} : conf' = s
    /\ UNCHANGED <<progVars, postmasterAlive, catalog, elapsed, histVars>>

\* Another session creates or drops a function.
AlterCatalog ==
    /\ pc # "proc_exit"
    /\ \E f \in Functions :
          catalog' = IF f \in catalog THEN catalog \ {f} ELSE catalog \cup {f}
    /\ UNCHANGED <<progVars, postmasterAlive, conf, elapsed, histVars>>

\* ----------------------------------------------------------- specification

Handler ==
    \/ worker_spark_sigterm
    \/ worker_spark_sighup

worker_spark_main ==
    \/ LoopEnter
    \/ LoopExit
    \/ WaitLatchReturn
    \/ ResetLatch
    \/ PostmasterDeathExit
    \/ PostmasterDeathSkip
    \/ TestSighup
    \/ ClearSighup
    \/ ProcessConfigFile
    \/ StartTx
    \/ Lookup
    \/ LookupFatal
    \/ LookupOk
    \/ BranchFound
    \/ BranchNotFound
    \/ Fire
    \/ FireFatal
    \/ FireOk
    \/ Finish

Environment ==
    \/ Tick
    \/ PostmasterDies
    \/ EditConf
    \/ AlterCatalog

Next == Handler \/ worker_spark_main \/ Environment

Spec == Init /\ [][Next]_vars

\* ------------------------------------------------- fairness of the loop

\* The loop is a running process: a statement that can be executed is
\* executed (WaitLatch returns once a condition it waits for holds, a query
\* returns).  Signals and postmaster death are under no obligation to
\* happen.  postgresql.conf and the catalog stay as they are at the start:
\* neither decides whether the loop moves.
FairNext == Handler \/ worker_spark_main \/ Tick \/ PostmasterDies

FairSpec == Init /\ [][FairNext]_vars /\ WF_vars(worker_spark_main)

\* ------------------------------------------------- the history of a cycle

\* The steps of the transaction of the current cycle, in order.
Ops == [i \in 1..Len(cycle.events) |-> cycle.events[i].op]

\* The lookup of the current cycle returned the expected class and the
\* function it names was in the catalog (found) or was not (missing).
LookupSaw(exists) ==
    \E i \in 1..Len(cycle.events) :
       /\ cycle.events[i].op = "lookup"
       /\ cycle.events[i].result = SPI_OK_SELECT
       /\ cycle.events[i].exists = exists

\* No query of the current cycle returned an unexpected class.
AllExpected ==
    \A i \in 1..Len(cycle.events) :
       cycle.events[i].op \in {"lookup", "fire"}
          => cycle.events[i].result = SPI_OK_SELECT

\* The query events of the current cycle name the configured procedure.
NamesConfigured ==
    \A i \in 1..Len(cycle.events) :
       cycle.events[i].op \in {"lookup", "fire"}
          => /\ cycle.events[i].schema = worker_spark_schema
             /\ cycle.events[i].procedure = worker_spark_procedure

\* ----------------------------------------------------------------- claims

\* C1: when the existence check finds the configured procedure (it is in the
\* catalog and the check returns the expected class) and the invocation
\* returns the expected class, the wake produces exactly one invocation of
\* that procedure, after the check and inside the same transaction, and the
\* process does not end with an error.
C1_FoundFiresOnce ==
    (cycle.woke /\ LookupSaw(TRUE) /\ AllExpected) =>
       /\ NamesConfigured
       /\ pc \in {"CheckLookup", "Branch", "Fire", "CheckFire", "Finish",
                  "LoopTest", "proc_exit"}
       /\ pc \in {"CheckLookup", "Branch", "Fire"}
             => Ops = <<"begin", "lookup">>
       /\ pc \in {"CheckFire", "Finish"}
             => Ops = <<"begin", "lookup", "fire">>
       /\ pc \in {"LoopTest", "proc_exit"}
             => Ops = <<"begin", "lookup", "fire", "commit">>
       /\ pc = "proc_exit" => exitStatus = <<0>>

C1_Witness ==
    /\ pc = "LoopTest"
    /\ LookupSaw(TRUE)
    /\ Ops = <<"begin", "lookup", "fire", "commit">>
    /\ exitStatus = <<>>

\* C2: when the existence check returns zero rows for a procedure that is
\* not in the catalog, the wake invokes nothing and raises no error: the
\* transaction is committed and the loop is back at its test, which ends
\* the process only with status 0 and only when got_sigterm is set.
C2_MissingIsSilent ==
    (cycle.woke /\ LookupSaw(FALSE)) =>
       /\ Count("fire") = 0
       /\ pc \in {"CheckLookup", "Branch", "Finish", "LoopTest", "proc_exit"}
       /\ pc \in {"CheckLookup", "Branch", "Finish"}
             => Ops = <<"begin", "lookup">> /\ xacts = 1
       /\ pc \in {"LoopTest", "proc_exit"}
             => Ops = <<"begin", "lookup", "commit">> /\ xacts = 0
       /\ pc = "proc_exit"
             => exitStatus = <<0>> /\ exitFrom = "LoopTest" /\ got_sigterm

C2_Witness ==
    /\ pc = "LoopTest"
    /\ LookupSaw(FALSE)
    /\ Ops = <<"begin", "lookup", "commit">>
    /\ ~got_sigterm
    /\ exitStatus = <<>>

\* C3: at most one transaction is open at any time: a transaction is started
\* only when none is open, one is open exactly during the statements between
\* start and commit (or when a fatal result ended the process there), and
\* each wake that passes the postmaster-death test opens exactly one
\* transaction and commits it before the loop is back at its test.
C3_OneTransactionAtATime ==
    /\ xacts \in {0, 1}
    /\ spi = xacts
    /\ snapshots = xacts
    /\ pc = "StartTx" => xacts = 0
    /\ xacts = 1 <=> \/ pc \in Executing
                     \/ /\ pc = "proc_exit"
                        /\ exitFrom \in {"CheckLookup", "CheckFire"}
    /\ Count("begin") = (IF pc \in Executing \cup {"LoopTest"} /\ cycle.woke
                         THEN 1
                         ELSE IF pc = "proc_exit" /\ exitFrom # "CheckDeath"
                                 /\ cycle.woke
                         THEN 1 ELSE 0)
    /\ Count("commit") = Count("begin") - xacts

C3_Witness ==
    /\ pc = "LoopTest"
    /\ cycle.woke
    /\ Count("begin") = 1
    /\ Count("commit") = 1
    /\ xacts = 0

\* C4, as the spec states it: once SIGTERM was delivered during WaitLatch,
\* no transaction is opened before the process exits.
C4_Original ==
    cycle.termWaiting => Count("begin") = 0 /\ pc \notin Executing

\* The states of a cycle in whose WaitLatch SIGTERM was delivered:
\* got_sigterm stays set, the loop is back at its test only after one
\* transaction was opened and committed, and the process has exited with
\* status 0 from that test or with status 1 from elsewhere.
C4_StateAfterTerm ==
    cycle.termWaiting =>
       /\ got_sigterm
       /\ pc = "LoopTest"
             => cycle.woke /\ Count("begin") = 1 /\ Count("commit") = 1
       /\ pc = "proc_exit" /\ exitFrom = "LoopTest"
             => /\ exitStatus = <<0>>
                /\ Count("begin") = 1
                /\ Count("commit") = 1
       /\ pc = "proc_exit" /\ exitFrom # "LoopTest" => exitStatus = <<1>>

\* The step the loop takes from its test in such a cycle: proc_exit(0).
C4_StepAfterTerm ==
    (cycle.termWaiting /\ pc = "LoopTest" /\ pc' # "LoopTest")
       => pc' = "proc_exit" /\ exitStatus' = <<0>>

\* C4, amended: once SIGTERM was delivered during WaitLatch, the wake cycle
\* in flight runs to its end with one transaction opened and committed, and
\* the loop test that follows ends the process with status 0 instead of
\* waiting again; the process ends with status 1 only if it ends elsewhere
\* (postmaster death, fatal result).
C4_ExitsAfterTheCycle == []C4_StateAfterTerm /\ [][C4_StepAfterTerm]_vars

C4_Witness ==
    /\ cycle.termWaiting
    /\ pc = "proc_exit"
    /\ exitStatus = <<0>>
    /\ Count("begin") = 1

\* C5: while rc reports the death of the postmaster the loop is at
\* ResetLatch or at the test of rc, or the process has exited from that test
\* with status 1: nothing was reloaded, no transaction was started and no
\* step of a transaction was taken since the wake.
C5_DeathExitsAtOnce ==
    /\ WL_POSTMASTER_DEATH \in rc =>
          /\ pc \in {"ResetLatch", "CheckDeath", "proc_exit"}
          /\ cycle.events = <<>>
          /\ cycle.loaded = <<>>
          /\ xacts = 0 /\ spi = 0 /\ snapshots = 0
          /\ pc = "proc_exit"
                => exitStatus = <<1>> /\ exitFrom = "CheckDeath"
    /\ exitFrom = "CheckDeath" => WL_POSTMASTER_DEATH \in rc

C5_Witness ==
    /\ pc = "proc_exit"
    /\ exitFrom = "CheckDeath"
    /\ exitStatus = <<1>>
    /\ WL_POSTMASTER_DEATH \in rc

\* C6: when a query of the cycle returned an unexpected class, it is the
\* last step the process took: the loop is at the test of that result or
\* the process has exited from it with status 1; nothing was committed, no
\* query followed, and after an unexpected lookup no invocation was issued.
C6_UnexpectedResultIsFatal ==
    ~AllExpected =>
       LET n == Len(cycle.events)
           bad == cycle.events[n]
       IN  /\ bad.op \in {"lookup", "fire"}
           /\ bad.result # SPI_OK_SELECT
           /\ \A i \in 1..(n - 1) :
                 cycle.events[i].op \in {"lookup", "fire"}
                    => cycle.events[i].result = SPI_OK_SELECT
           /\ Count("commit") = 0
           /\ Count("lookup") = 1
           /\ Count("fire") = (IF bad.op = "fire" THEN 1 ELSE 0)
           /\ pc \in {IF bad.op = "fire" THEN "CheckFire" ELSE "CheckLookup",
                      "proc_exit"}
           /\ pc = "proc_exit"
                 => /\ exitStatus = <<1>>
                    /\ exitFrom = (IF bad.op = "fire" THEN "CheckFire"
                                   ELSE "CheckLookup")

C6_Witness ==
    /\ ~AllExpected
    /\ pc = "proc_exit"
    /\ exitFrom = "CheckFire"
    /\ exitStatus = <<1>>

C8_Original ==
    [][/\ worker_spark_naptime' = worker_spark_naptime
       /\ worker_spark_schema' = worker_spark_schema
       /\ worker_spark_procedure' = worker_spark_procedure]_vars

\* C9: whenever the loop is in WaitLatch and got_sighup or got_sigterm is
\* set, the latch is set, so WaitLatch can return whatever is left of the
\* timeout.
C9_NoLostWakeup ==
    (pc = "WaitLatch" /\ (got_sighup \/ got_sigterm))
       => procLatch /\ WL_LATCH_SET \in WakeConditions

C9_Witness ==
    /\ pc = "WaitLatch"
    /\ got_sigterm
    /\ ~got_sighup
    /\ elapsed < timeout
    /\ procLatch

\* C10: as long as no signal was delivered and the postmaster lives, every
\* return of WaitLatch reports the timeout alone, and at least naptime
\* seconds have passed in the wait when the transaction is started.
C10_WaitsTheWholeInterval ==
    (~everSignalled /\ postmasterAlive) =>
       /\ pc \in {"ResetLatch", "CheckDeath"} => rc = {WL_TIMEOUT}
       /\ pc \in {"ResetLatch", "CheckDeath", "TestSighup", "StartTx"}
             => elapsed >= worker_spark_naptime * 1000
       /\ pc \notin {"ClearSighup", "ProcessConfigFile"}

C10_Witness ==
    /\ ~everSignalled
    /\ postmasterAlive
    /\ pc = "StartTx"
    /\ worker_spark_naptime = MaxNaptime
    /\ elapsed = MaxNaptime * 1000

\* ------------------------------------------------------------------- C11

\* A step taken while the transaction is open: it stays in the transaction
\* (a step of a handler moves nothing but flags and the latch), or it is the
\* commit of line 202, or it is the proc_exit(1) of elog(FATAL) at the test
\* of a query result.
C11_StepInExecuting ==
    pc \in Executing =>
       \/ /\ pc' \in Executing
          /\ xacts' = xacts
          /\ (got_sigterm' # got_sigterm \/ got_sighup' # got_sighup)
                => pc' = pc /\ cycle'.events = cycle.events
       \/ /\ pc = "Finish"
          /\ pc' = "LoopTest"
          /\ xacts' = xacts - 1
          /\ cycle'.events = Append(cycle.events,
                                    Event("commit", "", "", "", FALSE))
       \/ /\ pc' = "proc_exit"
          /\ exitStatus' = <<1>>
          /\ exitFrom' \in {"CheckLookup", "CheckFire"}

\* The states after SIGTERM was first delivered inside the transaction: the
\* loop is still in that transaction, or back at its test with the
\* transaction committed, or the process has exited, with status 0 from the
\* test after the commit or with status 1 from a fatal result; no second
\* transaction was begun and WaitLatch was not entered again.
C11_StateAfterTerm ==
    cycle.termAt = "Executing" =>
       /\ got_sigterm
       /\ cycle.termBegins = 1
       /\ Count("begin") = 1
       /\ pc \in Executing \cup {"LoopTest", "proc_exit"}
       /\ pc = "LoopTest" => Count("commit") = 1 /\ xacts = 0
       /\ pc = "proc_exit" /\ exitFrom = "LoopTest"
             => exitStatus = <<0>> /\ Count("commit") = 1 /\ xacts = 0
       /\ pc = "proc_exit" /\ exitFrom # "LoopTest"
             => exitStatus = <<1>> /\ exitFrom \in {"CheckLookup", "CheckFire"}

\* C11: the transaction is never interrupted.  Every step taken while it is
\* open keeps it open, commits it or is the fatal exit, whatever signal is
\* delivered, and an open transaction always reaches its commit or the fatal
\* exit; when SIGTERM is delivered inside the transaction, the transaction
\* commits and the process then exits with status 0 without another
\* WaitLatch and without another transaction (status 1 only on a fatal
\* result).
C11_ExecutingIsNotInterrupted ==
    /\ [][C11_StepInExecuting]_vars
    /\ []C11_StateAfterTerm
    /\ (pc \in Executing) ~> (pc \in {"LoopTest", "proc_exit"})
    /\ (cycle.termAt = "Executing") ~> (pc = "proc_exit")

C11_Witness ==
    /\ cycle.termAt = "Executing"
    /\ pc = "proc_exit"
    /\ exitStatus = <<0>>
    /\ Count("commit") = 1

\* ------------------------------------------------------------------- C12

\* The names the settings hold since the last reload: those the cycle
\* reloaded, or those it entered WaitLatch with when it reloaded nothing.
LastReloaded ==
    IF cycle.loaded = <<>> THEN cycle.atWait
    ELSE Names(cycle.loaded[Len(cycle.loaded)])

\* A step leaves the three settings alone while the transaction is open; a
\* step that changes them is line 136, taken after WaitLatch returned and
\* before the transaction of the cycle, and assigns the values of
\* postgresql.conf; line 136 is reached only through line 135, and line 135
\* only from the test of line 133 with got_sighup set.
C12_StepOfConfig ==
    /\ (pc \in Executing \/ xacts > 0) => CurrentSettings' = CurrentSettings
    /\ CurrentSettings' # CurrentSettings
          => /\ pc = "ProcessConfigFile"
             /\ pc' = "StartTx"
             /\ cycle.woke
             /\ xacts = 0
             /\ Count("begin") = 0
             /\ CurrentSettings' = conf
    /\ (pc' = "ProcessConfigFile" /\ pc # "ProcessConfigFile")
          => pc = "ClearSighup" /\ got_sighup /\ ~got_sighup'
    /\ (pc' = "ClearSighup" /\ pc # "ClearSighup")
          => pc = "TestSighup" /\ got_sighup

\* The queries of a cycle all carry the names last reloaded, and while the
\* transaction is open the settings hold those names.
C12_SameNames ==
    /\ \A i \in 1..Len(cycle.events) :
          cycle.events[i].op \in {"lookup", "fire"}
             => /\ cycle.events[i].schema = LastReloaded.schema
                /\ cycle.events[i].procedure = LastReloaded.procedure
    /\ pc \in Executing => Names(CurrentSettings) = LastReloaded

\* C12: the settings are never changed while a transaction is open.  They
\* change only at the reload of line 136, after a wake, before the
\* transaction is started and only when got_sighup was set at the test of
\* line 133; the lookup and the invocation of one cycle carry the same
\* schema and procedure, those last reloaded.
C12_ConfigStableInTransaction ==
    [][C12_StepOfConfig]_vars /\ []C12_SameNames

C12_Witness ==
    /\ pc = "Finish"
    /\ Count("lookup") = 1
    /\ Count("fire") = 1
    /\ cycle.loaded # <<>>
    /\ Names(cycle.loaded[1]) # cycle.atWait
    /\ got_sighup
    /\ Names(conf) # Names(CurrentSettings)

\* ------------------------------------------------------------------- C13

\* The transaction, the SPI connection and the snapshot of the loop are all
\* released.
Released == xacts = 0 /\ spi = 0 /\ snapshots = 0

\* C13, as the spec states it: in every state where the process has exited,
\* the loop's own release steps (lines 200-202) have released what the last
\* cycle opened.
C13_Original ==
    pc = "proc_exit" => Released /\ Count("commit") = Count("begin")

\* C13, amended: the loop releases the transaction, the SPI connection and
\* the snapshot itself only on the path to the commit.  When the process has
\* exited with status 0, or from the test of postmaster death, nothing is
\* open: every transaction begun was committed by lines 200-202.  When it
\* has exited on an unexpected result, the release steps were skipped: the
\* transaction of the cycle was begun, never committed, and is still open at
\* proc_exit(1), left to the exit processing of the server.
C13_ReleasedUnlessFatal ==
    /\ (pc = "proc_exit" /\ exitFrom \in {"LoopTest", "CheckDeath"})
          => Released /\ Count("commit") = Count("begin")
    /\ (pc = "proc_exit" /\ exitStatus = <<0>>) => exitFrom = "LoopTest"
    /\ (pc = "proc_exit" /\ exitFrom \notin {"LoopTest", "CheckDeath"})
          => /\ exitFrom \in {"CheckLookup", "CheckFire"}
             /\ exitStatus = <<1>>
             /\ xacts = 1 /\ spi = 1 /\ snapshots = 1
             /\ Count("begin") = 1
             /\ Count("commit") = 0
    /\ (pc \notin Executing /\ pc # "proc_exit") => Released

C13_Witness ==
    /\ pc = "proc_exit"
    /\ exitFrom = "CheckFire"
    /\ xacts = 1
    /\ Count("fire") = 1
    /\ Count("commit") = 0

\* ------------------------------------------------------------------- C14

\* What a handler has no business with: the position of the loop, the
\* settings, the argument and the result of WaitLatch, the results of the
\* queries, the transaction, the exit status, postgresql.conf, the catalog
\* and the clock, and the queries and reloads of the cycle.
C14_RestUnchanged ==
    /\ UNCHANGED <<pc, worker_spark_naptime, worker_spark_schema,
                   worker_spark_procedure, timeout, rc, ret, SPI_processed,
                   xacts, spi, snapshots, exitStatus, envVars>>
    /\ cycle'.events = cycle.events
    /\ cycle'.loaded = cycle.loaded

\* The steps of the handlers are those that raise a flag or set the latch
\* (the loop only lowers got_sighup and resets the latch).
C14_StepOfHandler ==
    /\ got_sigterm' # got_sigterm
          => /\ got_sigterm'
             /\ procLatch'
             /\ got_sighup' = got_sighup
             /\ C14_RestUnchanged
    /\ (got_sighup' /\ ~got_sighup)
          => /\ procLatch'
             /\ got_sigterm' = got_sigterm
             /\ C14_RestUnchanged
    /\ (procLatch' /\ ~procLatch)
          => /\ got_sigterm => got_sigterm'
             /\ got_sighup => got_sighup'
             /\ C14_RestUnchanged

C15_PendingIsOnRecord ==
    hupPending => got_sighup \/ pc \in {"ProcessConfigFile", "proc_exit"}

\* The loop lowers got_sighup only at line 135, on its way to line 136.
C15_StepOfClear ==
    (got_sighup /\ ~got_sighup')
       => pc = "ClearSighup" /\ pc' = "ProcessConfigFile"

\* C15: no SIGHUP is lost by the test and the clear of lines 133-135.
\* Wherever the handler runs (between the test and the clear, between the
\* clear and the reload, inside the transaction), a SIGHUP that no reload has
\* followed stays on record, the flag is lowered only on the way to the
\* reload, and the reload of line 136 starts after the delivery unless the
\* process exits first.
C15_NoReloadNoticeLost ==
    /\ []C15_PendingIsOnRecord
    /\ [][C15_StepOfClear]_vars
    /\ hupPending ~> (~hupPending \/ pc = "proc_exit")

C15_Witness ==
    /\ pc = "Lookup"
    /\ hupPending
    /\ cycle.loaded # <<>>
    /\ ~cycle.hupBefore
    /\ ~got_sigterm

\* ------------------------------------------------------------------- C16

\* The states after the first delivery of SIGTERM: the flag is set; the
\* cycle begins no transaction after a delivery at the loop test or inside
\* the transaction, and at most one after a delivery in WaitLatch or between
\* WaitLatch and the transaction; an exit that is neither the exit on
\* postmaster death nor a fatal result is the exit of line 206 with status
\* 0.
C16_StateAfterTerm ==
    cycle.termAt # "none" =>
       /\ got_sigterm
       /\ Count("begin") - cycle.termBegins \in {0, 1}
       /\ cycle.termAt \in {"LoopTest", "Executing"}
             => Count("begin") = cycle.termBegins
       /\ pc = "proc_exit"
             => \/ exitFrom = "LoopTest" /\ exitStatus = <<0>>
                \/ exitFrom = "CheckDeath" /\ exitStatus = <<1>>
                \/ exitFrom \in {"CheckLookup", "CheckFire"}
                      /\ exitStatus = <<1>>

\* C16: once SIGTERM was delivered, at the loop test, in WaitLatch, between
\* WaitLatch and the transaction or inside the transaction, the process
\* exits; it exits with status 0 unless WaitLatch reported the death of the
\* postmaster or a query returned an unexpected result; at most one
\* transaction begins after the delivery; and no step of the loop clears
\* got_sigterm.
C16_TermLeadsToExit ==
    /\ got_sigterm ~> (pc = "proc_exit")
    /\ []C16_StateAfterTerm
    /\ [][got_sigterm => got_sigterm']_vars

C16_Witness ==
    /\ pc = "proc_exit"
    /\ exitStatus = <<0>>
    /\ cycle.termAt = "Woken"
    /\ cycle.termBegins = 0
    /\ Count("begin") = 1
    /\ Count("commit") = 1

\* ------------------------------------------------------------------- C17

\* The states of a wake that reported the death of the postmaster: the exit
\* has status 1 whatever got_sigterm holds, and a SIGHUP on record is still
\* on record, with nothing reloaded.
C17_StateAtDeath ==
    WL_POSTMASTER_DEATH \in rc =>
       /\ pc = "proc_exit" => exitStatus = <<1>>
       /\ hupPending => got_sighup
       /\ cycle.loaded = <<>>

\* The step that ends such a wake is proc_exit(1) and leaves the two flags
\* and the settings as they are; no step of such a wake lowers got_sighup;
\* and a step that ends the process with status 0 is taken from the test of
\* line 110 with got_sigterm set.
C17_StepAtDeath ==
    /\ (WL_POSTMASTER_DEATH \in rc /\ pc = "CheckDeath" /\ pc' # pc)
          => /\ pc' = "proc_exit"
             /\ exitStatus' = <<1>>
             /\ UNCHANGED <<got_sigterm, got_sighup, hupPending>>
             /\ CurrentSettings' = CurrentSettings
    /\ (WL_POSTMASTER_DEATH \in rc /\ got_sighup) => got_sighup'
    /\ (exitStatus' = <<0>> /\ exitStatus # <<0>>)
          => pc = "LoopTest" /\ got_sigterm

\* C17: the death of the postmaster takes priority over pending signals.
\* When WaitLatch reports it, the process exits with status 1 even with
\* got_sigterm set, and a pending got_sighup is neither cleared nor followed
\* by a reload; status 0 is produced only by the loop condition of line 110
\* finding got_sigterm set.
C17_DeathBeforeSignals ==
    /\ []C17_StateAtDeath
    /\ [][C17_StepAtDeath]_vars
    /\ [](exitStatus = <<0>> => exitFrom = "LoopTest" /\ got_sigterm)

C17_Witness ==
    /\ pc = "proc_exit"
    /\ exitFrom = "CheckDeath"
    /\ exitStatus = <<1>>
    /\ got_sigterm
    /\ got_sighup
    /\ hupPending
    /\ conf # CurrentSettings

\* ------------------------------------------------------------------- C18

\* The way into a transaction: WaitLatch returns, the latch is reset, the
\* test of rc finds no postmaster death, got_sighup is tested (and the
\* settings reloaded), and only then the transaction is started, once.
C18_StepIntoExecuting ==
    /\ xacts' > xacts
          => pc = "StartTx" /\ cycle.woke /\ Count("begin") = 0
    /\ (pc' = "StartTx" /\ pc # "StartTx")
          => pc \in {"TestSighup", "ProcessConfigFile"}
    /\ (pc' = "ProcessConfigFile" /\ pc # "ProcessConfigFile")
          => pc = "ClearSighup"
    /\ (pc' = "ClearSighup" /\ pc # "ClearSighup") => pc = "TestSighup"
    /\ (pc' = "TestSighup" /\ pc # "TestSighup")
          => pc = "CheckDeath" /\ WL_POSTMASTER_DEATH \notin rc
    /\ (pc' = "CheckDeath" /\ pc # "CheckDeath") => pc = "ResetLatch"
    /\ (pc' = "ResetLatch" /\ pc # "ResetLatch")
          => pc = "WaitLatch" /\ rc' # {} /\ cycle'.woke

\* Before WaitLatch has returned the loop is at its test or in WaitLatch and
\* no transaction was begun; when SIGTERM was delivered before the loop was
\* first entered, the loop is still at its first test or the process has
\* exited from it with status 0, without a transaction.
C18_StateBeforeWake ==
    /\ ~cycle.woke
          => /\ pc \in {"LoopTest", "WaitLatch", "proc_exit"}
             /\ Count("begin") = 0
             /\ xacts = 0
    /\ pc \in Executing \cup {"StartTx"}
          => cycle.woke /\ WL_POSTMASTER_DEATH \notin rc
    /\ (cycle.termAt = "LoopTest" /\ ~cycle.woke)
          => /\ pc \in {"LoopTest", "proc_exit"}
             /\ pc = "proc_exit"
                   => exitStatus = <<0>> /\ exitFrom = "LoopTest"

\* C18: every transaction is begun right after a return of WaitLatch that
\* did not report the death of the postmaster, one transaction per return;
\* no transaction is begun before the first WaitLatch; and when got_sigterm
\* is already set at the first test of line 110, the process exits with
\* status 0 and has begun no transaction.
C18_WaitBeforeWork ==
    /\ [][C18_StepIntoExecuting]_vars
    /\ []C18_StateBeforeWake
    /\ (cycle.termAt = "LoopTest" /\ ~cycle.woke) ~> (pc = "proc_exit")

C18_Witness ==
    /\ pc = "Lookup"
    /\ cycle.woke
    /\ Count("begin") = 1
    /\ xacts = 1
    /\ ~postmasterAlive
    /\ cycle.termAt = "none"

\* The other case of C18: SIGTERM before the first test, exit without a
\* transaction.
C18_FirstTestExit ==
    /\ pc = "proc_exit"
    /\ exitStatus = <<0>>
    /\ cycle.termAt = "LoopTest"
    /\ ~cycle.woke
    /\ Count("begin") = 0

\* ---------------------------------------- the arithmetic of the timeout
\* worker_spark_naptime * 1000L multiplies an int by a long: the int is
\* converted to long and the product is computed in the width of long, 64
\* bits on LP64 builds and 32 bits on ILP32 and LLP64 builds.  A long is
\* written here as its 16-bit limbs, least significant first, in two's
\* complement.

\* Line 227: the upper limit of worker_spark.naptime.
INT_MAX == 2147483647

Base == 2 ^ 16

LongBits == {32, 64}

\* The limbs of the int n, 0 <= n <= INT_MAX.
ToLimbs(n) == <<n % Base, n \div Base>>

\* The sign bit of the limbs l is set.
Negative(l) == l[Len(l)] >= Base \div 2

\* The limbs l widened to n limbs, as C converts a signed value.
SignExtend(l, n) ==
    l \o [i \in 1..(n - Len(l)) |-> IF Negative(l) THEN Base - 1 ELSE 0]

\* The product of the two limbs x by the small factor k, carried limb by
\* limb and kept to n limbs: what does not fit is dropped.
MulLimbs(x, k, n) ==
    LET p1 == x[1] * k
        p2 == x[2] * k + p1 \div Base
    IN  SubSeq(<<p1 % Base, p2 % Base, p2 \div Base, 0>>, 1, n)

\* The product of x by k carried limb by limb is lost in part when kept to n
\* limbs as a signed value.
Overflows(x, k, n) ==
    \/ Negative(MulLimbs(x, k, n))
    \/ \E i \in (n + 1)..4 : MulLimbs(x, k, 4)[i] # 0

\* A multiplication that is done in int, as naptime * 1000 would be, and
\* converted to long afterwards.
TimesLong_int(naptime, bits) ==
    {[trap |-> FALSE,
      limbs |-> SignExtend(MulLimbs(ToLimbs(naptime), MsPerSec, 2),
                           bits \div 16)]}

\* Line 123 on a build whose long has the given bits: the values
\* worker_spark_naptime * 1000L may hand to WaitLatch.  Signed overflow is
\* undefined: the build wraps the product or traps.
TimesLong(naptime, bits) ==
    LET n == bits \div 16
        product == [trap |-> FALSE,
                    limbs |-> MulLimbs(ToLimbs(naptime), MsPerSec, n)]
    IN  IF Overflows(ToLimbs(naptime), MsPerSec, n)
        THEN {product, [trap |-> TRUE, limbs |-> <<>>]}
        ELSE {product}

\* The intervals followed: lines 225-227 allow 1..INT_MAX.
Intervals ==
    (1..Window)
    \cup ((Base - Window)..(Base + Window))
    \cup ((INT_MAX \div MsPerSec - Window)..(INT_MAX \div MsPerSec + Window))
    \cup {INT_MAX - i : i \in 0..Window}

\* The loop is about to be entered with any allowed interval.
TimeoutInit ==
    /\ pc = "LoopTest"
    /\ got_sighup = FALSE
    /\ got_sigterm = FALSE
    /\ procLatch = FALSE
    /\ \E n \in Intervals, sc \in Schemas, pr \in Procedures :
          LET s == [naptime |-> n, schema |-> sc, procedure |-> pr]
          IN  /\ worker_spark_naptime = n
              /\ worker_spark_schema = sc
              /\ worker_spark_procedure = pr
              /\ conf = s
              /\ cycle = NewCycle(s)
    /\ timeout = [b \in LongBits |-> [trap |-> FALSE, limbs |-> ToLimbs(0)]]
    /\ rc = {}
    /\ ret = "unset"
    /\ SPI_processed = 0
    /\ xacts = 0
    /\ spi = 0
    /\ snapshots = 0
    /\ exitStatus = <<>>
    /\ postmasterAlive = TRUE
    /\ catalog = Functions
    /\ elapsed = 0
    /\ everSignalled = FALSE
    /\ exitFrom = "none"
    /\ hupPending = FALSE

\* Lines 110 and 121-123: the loop is entered and the third argument of
\* WaitLatch is computed, on the build of each width of long.
TimeoutEval ==
    /\ LoopRuns
    /\ pc = "LoopTest"
    /\ ~got_sigterm
    /\ pc' = "WaitLatch"
    /\ timeout' \in [LongBits -> UNION {TimesLong(worker_spark_naptime, b) :
                                           b \in LongBits}]
    /\ \A b \in LongBits : timeout'[b] \in TimesLong(worker_spark_naptime, b)
    /\ UNCHANGED <<got_sighup, got_sigterm, procLatch,
                   worker_spark_naptime, worker_spark_schema,
                   worker_spark_procedure, rc, ret, SPI_processed, xacts,
                   spi, snapshots, exitStatus, envVars, histVars>>

TimeoutSpec == TimeoutInit /\ [][TimeoutEval]_vars

\* ------------------------------------------------------------------- C19

\* The limbs l divided by the small divisor d, from the most significant
\* limb down: the quotient, as four limbs, and the remainder.
DivLimbs(l, d) ==
    LET p == l \o [i \in 1..(4 - Len(l)) |-> 0]
        r4 == p[4] % d
        c3 == r4 * Base + p[3]
        r3 == c3 % d
        c2 == r3 * Base + p[2]
        r2 == c2 % d
        c1 == r2 * Base + p[1]
    IN  [quot |-> <<c1 \div d, c2 \div d, c3 \div d, p[4] \div d>>,
         rem |-> c1 % d]

\* The outcome r hands WaitLatch exactly naptime * 1000 milliseconds: a
\* value, not negative, that divided by 1000 gives naptime and no
\* remainder.
C19_IsExact(r, naptime) ==
    /\ ~r.trap
    /\ ~Negative(r.limbs)
    /\ DivLimbs(r.limbs, MsPerSec)
          = [quot |-> ToLimbs(naptime) \o <<0, 0>>, rem |-> 0]

\* C19: for every interval in 1..INT_MAX, with a 64-bit long the timeout
\* handed to WaitLatch is exactly interval * 1000, a positive value, and
\* nothing of the product is lost; with a 32-bit long the timeout is that
\* value exactly for the intervals up to 2147483 (INT_MAX \div 1000) and is
\* not that value for any larger interval, where the product overflows.
C19_TimeoutIsExact ==
    pc = "WaitLatch" =>
       /\ worker_spark_naptime \in 1..INT_MAX
       /\ C19_IsExact(timeout[64], worker_spark_naptime)
       /\ timeout[64].limbs # <<0, 0, 0, 0>>
       /\ ~Overflows(ToLimbs(worker_spark_naptime), MsPerSec, 4)
       /\ C19_IsExact(timeout[32], worker_spark_naptime)
             <=> worker_spark_naptime <= INT_MAX \div MsPerSec
       /\ Overflows(ToLimbs(worker_spark_naptime), MsPerSec, 2)
             <=> worker_spark_naptime > INT_MAX \div MsPerSec

C19_Witness ==
    /\ pc = "WaitLatch"
    /\ worker_spark_naptime = INT_MAX
    /\ C19_IsExact(timeout[64], INT_MAX)
    /\ ~timeout[32].trap
    /\ ~C19_IsExact(timeout[32], INT_MAX)

====
